---- MODULE Spec2Model ----
(***************************************************************************)
(* A model of the serverless-genomics map/reduce orchestration core:       *)
(*   - the multipart upload coordinator (reducer/reduce_functions.py),     *)
(*   - the partition balancer distribute_indexes (same file),              *)
(*   - the four chunk stage functions (mapping/alignment_mapper.py).       *)
(* Each part has its own specification (SpecMPU, SpecBal, SpecStage) over  *)
(* the variables it uses; the other variables stay at their initial value. *)
(***************************************************************************)
EXTENDS Integers, Sequences, FiniteSets, TLC

\* ------------------------------------------------------------------------
\* Bounds of the model
\* ------------------------------------------------------------------------
\* Multipart uploads of one batch (one per fasta split).
MaxUploads == 2
\* Parts (reduce workers) dispatched per multipart upload.
MaxParts == 2
\* Length of the collected parts list handed to the coordinator.
MaxCollected == 4
\* Reduce worker calls of one batch that the serverless layer runs again.
MaxReruns == 1
\* Source objects queried by the balancer.
MaxSources == 2
\* Records per source object.
MaxRecords == 3
\* Largest value of the key column.
MaxKey == 3
\* Largest scaled-down budget the balancer is run with.
MaxBudget == 2
\* Working directories one worker process can hold before it is recycled.
MaxDirs == 2
\* Largest fasta split id and largest fastq chunk id the keys are derived
\* for.
MaxFastaSplit == 10
MaxFastqChunk == 1

\* The budget the code fixes (reduce_functions.py line 137).
MAX_INDEXES == 20000000

VARIABLES
    \* ---- multipart upload coordinator ----
    mpu_ids,      \* upload ids, in the order of their keys (create_multipart)
    expected,     \* upload id -> number of parts dispatched for it
    collected,    \* results returned by the reduce workers, in arrival order
    cpc,          \* "collecting" | "done": has the coordinator run
    completions,  \* completion calls issued, in order
    leftover,     \* complete_multipart's local `parts` when it returns
    mpu_store,    \* the parts the store holds for the multipart uploads
    reruns,       \* the (upload, part) pairs whose reduce worker ran again
    \* ---- partition balancer ----
    sources,      \* per source key, the key column of its records, in order
    budget,       \* the threshold of the walk
    bpc,          \* "query" | "walk" | "done"
    qi,           \* number of source keys queried so far
    count_indexes,\* the dict: sequence of [k, c] in insertion order
    index,        \* the local `index` (Unbound until first assigned)
    key,          \* the local `key` (a source key, then a dict key)
    indexes,      \* the accumulator of the walk
    wi,           \* number of dict entries walked so far
    workers_data, \* the boundaries appended so far
    \* ---- chunk stage functions ----
    store,        \* the object store: key -> content (Absent when no object)
    tool,         \* stage -> what its external tool does on these inputs
    pc,           \* worker -> where its invocation stands
    inv,          \* worker -> the stage and arguments of its invocation
    turn,         \* worker -> turns done of the loop the invocation is in
    tmp,          \* worker -> the directories this invocation made (mkdtemp)
    pwd,          \* worker -> the local `pwd` (os.getcwd() as saved)
    cwd,          \* worker -> the working directory of the worker process
    dirs,         \* worker -> the temporary directories that exist on it
    got,          \* worker -> the contents downloaded by this invocation
    out,          \* worker -> the tool's local output: "none", "good", "bad"
    uploaded,     \* worker -> the keys this invocation has uploaded
    ran,          \* worker -> this invocation has run its external tool
    toolFailed,   \* worker -> that tool reported a non-success status
    entry,        \* worker -> its outputs that existed when the invocation began
    result,       \* worker -> what its invocation returned, stats left out
    returned,     \* stages of which an invocation has returned normally
    abandoned,    \* an invocation has been abandoned
    \* ---- structured queries ----
    query_error,  \* the error an invocation raised when a select failed
    \* ---- object keys ----
    tasks,        \* the objects written whose keys are derived
    derived,      \* the keys derived so far, as the strings the code builds
    key_dict      \* keys_by_fasta_split's dict: [g, ks] in insertion order

mpuVars == <<mpu_ids, expected, collected, cpc, completions, leftover,
             mpu_store, reruns>>
balVars == <<sources, budget, bpc, qi, count_indexes, index, key, indexes, wi,
             workers_data>>
stageVars == <<store, tool, pc, inv, turn, tmp, pwd, cwd, dirs, got, out,
               uploaded, ran, toolFailed, entry, result, returned, abandoned>>
keyVars == <<tasks, derived, key_dict>>
vars == <<mpuVars, balVars, stageVars, query_error, keyVars>>
\* What the actions of one part leave alone.
notMpu == <<balVars, stageVars, query_error, keyVars>>
notBal == <<mpuVars, stageVars, query_error, keyVars>>
notStage == <<mpuVars, balVars, query_error, keyVars>>
notKeys == <<mpuVars, balVars, stageVars, query_error>>

\* ------------------------------------------------------------------------
\* Generic helpers
\* ------------------------------------------------------------------------
RECURSIVE SumSeq(_)
SumSeq(s) == IF s = <<>> THEN 0 ELSE Head(s) + SumSeq(Tail(s))

Range(s) == {s[i] : i \in DOMAIN s}

SeqsUpTo(S, n) == UNION {[1..m -> S] : m \in 0..n}

IsSorted(s) == \A i \in 1..(Len(s) - 1) : s[i] <= s[i + 1]

\* ------------------------------------------------------------------------
\* Multipart upload coordinator (reducer/reduce_functions.py)
\* ------------------------------------------------------------------------
\* The run id of the pipeline parameters under study.
RunId == "run"

\* create_multipart_keys: one key per fasta split i in range(fasta_chunks),
\* f"tmp/{run_id}/multipart_uploads/fa{i}.sinple".
MultipartKey(run, i) ==
    [prefix |-> "tmp", run |-> run, stage |-> "multipart_uploads",
     fq |-> -1, fa |-> i, file |-> "sinple"]

create_multipart_keys(run, fasta_chunks) ==
    [j \in 1..fasta_chunks |-> MultipartKey(run, j - 1)]

\* The ETag the store returns for part n of upload u (opaque, one per part).
ETag(u, n) == <<"etag", u, n>>

\* What reduce_function returns for part n_part of upload mpu_id (line 82).
PartResult(mpu_id, n_part) ==
    [PartNumber |-> n_part, ETag |-> ETag(mpu_id, n_part), mpu_id |-> mpu_id]

\* The inner loop of finish / complete_multipart: it counts the parts at
\* the head of the list that carry mpu_id and stops at the first other one.
RECURSIVE Remove(_, _)
Remove(mpu_id, parts) ==
    IF parts = <<>> \/ Head(parts).mpu_id # mpu_id
    THEN 0
    ELSE 1 + Remove(mpu_id, Tail(parts))

\* Variant: the loop takes every part, whatever its mpu_id.
MpuPartOfAnyUpload(mpu_id, parts) ==
    [i \in DOMAIN parts |->
        [PartNumber |-> parts[i].PartNumber, ETag |-> parts[i].ETag]]

\* The list mpu_part built by that loop.
MpuPart(mpu_id, parts) ==
    [i \in 1..Remove(mpu_id, parts) |->
        [PartNumber |-> parts[i].PartNumber, ETag |-> parts[i].ETag]]

\* The completion call s3.complete_multipart_upload(Key, UploadId, Parts).
CompletionCall(k, mpu_id, parts) ==
    [Key |-> k, UploadId |-> mpu_id, Parts |-> MpuPart(mpu_id, parts)]

\* Variant: the consumed parts stay at the head of the list.
DropNothing(mpu_id, parts) == parts

\* parts = parts[remove:]
DropParts(mpu_id, parts) ==
    SubSeq(parts, Remove(mpu_id, parts) + 1, Len(parts))

\* Variant: only the first upload of the batch is completed.
CompleteFirstUploadOnly(keys, ids, parts) ==
    <<CompletionCall(Head(keys), Head(ids), parts)>>

\* complete_multipart: for key, mpu_id in zip(keys, mpu_ids): one call
\* each, the parts consumed by a call dropped before the next.
RECURSIVE CompleteMultipartCalls(_, _, _)
CompleteMultipartCalls(keys, ids, parts) ==
    IF keys = <<>> \/ ids = <<>>
    THEN <<>>
    ELSE <<CompletionCall(Head(keys), Head(ids), parts)>>
         \o CompleteMultipartCalls(Tail(keys), Tail(ids),
                                   DropParts(Head(ids), parts))

RECURSIVE CompleteMultipartLeft(_, _, _)
CompleteMultipartLeft(keys, ids, parts) ==
    IF keys = <<>> \/ ids = <<>>
    THEN parts
    ELSE CompleteMultipartLeft(Tail(keys), Tail(ids),
                               DropParts(Head(ids), parts))

\* Variant: finish lists every part of the list that carries mpu_id.
FinishCallsGrouped(k, mpu_id, parts) ==
    <<[Key |-> k, UploadId |-> mpu_id,
       Parts |-> LET own == SelectSeq(parts, LAMBDA x : x.mpu_id = mpu_id)
                 IN [i \in DOMAIN own |->
                       [PartNumber |-> own[i].PartNumber, ETag |-> own[i].ETag]]]>>

\* finish: one call for one upload, from the head of the list.
FinishCalls(k, mpu_id, parts) == <<CompletionCall(k, mpu_id, parts)>>

\* The predicate of the select of reduce_function (line 26):
\* cast(s._2 as int) BETWEEN range.start AND range.end.
Between(v, range) == range.start <= v /\ v <= range.end

\* The rows a reduce_function run on this range selects from the source
\* objects named names, whose key columns are srcs: for each source key in
\* turn, its rows that satisfy the predicate, in source order, one after
\* the other (lines 30-47). A row is named by its source and its place in
\* it.
RECURSIVE SelectRows(_, _, _)
SelectRows(names, srcs, range) ==
    IF srcs = <<>> THEN <<>>
    ELSE LET n == Len(srcs)
         IN SelectRows(SubSeq(names, 1, n - 1), SubSeq(srcs, 1, n - 1), range)
            \o SelectSeq([r \in DOMAIN srcs[n] |->
                            [src |-> names[n], row |-> r, k |-> srcs[n][r]]],
                         LAMBDA rec : Between(rec.k, range))

\* What mpileup_merge_reducev3.sh writes for the rows it is fed (59-66):
\* the script is a function of its input.
MergeReduce(rows) == [sinple |-> rows]

\* The dispatch plan: the reduce worker of part n of the upload of fasta
\* split u scans the pileup object of that split for the keys of range n.
SplitKeys(u) == <<[pileup |-> u]>>
SplitRows(u) == <<[r \in 1..MaxParts |-> r]>>
RangeOfPart(n) == [start |-> n, end |-> n]

\* The Body reduce_function uploads for part n_part of upload mpu_id.
Body(mpu_id, n_part) ==
    MergeReduce(SelectRows(SplitKeys(mpu_id), SplitRows(mpu_id),
                           RangeOfPart(n_part)))

\* A part as the store holds it.
StoredPart(mpu_id, n_part, body) ==
    [UploadId |-> mpu_id, PartNumber |-> n_part, Body |-> body]

\* Variant: s3.upload_part adds a part and keeps the ones already there.
UploadPartKeepingOld(held, mpu_id, n_part, body) ==
    Append(held, StoredPart(mpu_id, n_part, body))

\* s3.upload_part(Body, Key, UploadId, PartNumber) (lines 70-72): the part
\* of that number of that upload is replaced, the others are kept.
UploadPart(held, mpu_id, n_part, body) ==
    Append(SelectSeq(held, LAMBDA h : ~(h.UploadId = mpu_id
                                        /\ h.PartNumber = n_part)),
           StoredPart(mpu_id, n_part, body))

UploadIds == 1..MaxUploads

\* A batch of three uploads of two parts each, whose six reduce workers
\* have returned in the order U1P1, U2P1, U1P2, U3P1, U2P2, U3P2.
MpuExample ==
    /\ mpu_ids = <<1, 2, 3>>
    /\ expected = <<2, 2, 2>>
    /\ collected = <<PartResult(1, 1), PartResult(2, 1), PartResult(1, 2),
                     PartResult(3, 1), PartResult(2, 2), PartResult(3, 2)>>
    /\ cpc = "collecting"
    /\ completions = <<>>
    /\ leftover = <<>>
    /\ mpu_store = <<StoredPart(1, 1, Body(1, 1)), StoredPart(2, 1, Body(2, 1)),
                     StoredPart(1, 2, Body(1, 2)), StoredPart(3, 1, Body(3, 1)),
                     StoredPart(2, 2, Body(2, 2)), StoredPart(3, 2, Body(3, 2))>>
    /\ reruns = {}

\* Two uploads created for the reduce phase, of two parts and of one, no
\* reduce worker having returned yet.
MpuCreated ==
    /\ mpu_ids = <<1, 2>>
    /\ expected = <<2, 1>>
    /\ collected = <<>>
    /\ cpc = "collecting"
    /\ completions = <<>>
    /\ leftover = <<>>
    /\ mpu_store = <<>>
    /\ reruns = {}

MpuInit ==
    /\ mpu_ids = <<>>
    /\ expected = <<>>
    /\ collected = <<>>
    /\ cpc = "collecting"
    /\ completions = <<>>
    /\ leftover = <<>>
    /\ mpu_store = <<>>
    /\ reruns = {}

\* create_multipart: the store allocates an unused upload id for the next
\* key; the dispatch plan fixes how many parts the upload will get.
create_multipart(u, n) ==
    /\ cpc = "collecting"
    /\ Len(mpu_ids) < MaxUploads
    /\ u \notin Range(mpu_ids)
    /\ collected = <<>>
    /\ mpu_ids' = Append(mpu_ids, u)
    /\ expected' = Append(expected, n)
    /\ UNCHANGED <<collected, cpc, completions, leftover, mpu_store, reruns>>
    /\ UNCHANGED notMpu

ExpectedOf(u) ==
    LET i == CHOOSE j \in DOMAIN mpu_ids : mpu_ids[j] = u IN expected[i]

\* A reduce worker uploads its part and returns it; results are gathered
\* in the order the workers finish. The serverless layer may run the same
\* call once more: the part is uploaded again, and the call still has one
\* result.
reduce_function(u, n) ==
    /\ cpc = "collecting"
    /\ u \in Range(mpu_ids)
    /\ n \in 1..ExpectedOf(u)
    /\ mpu_store' = UploadPart(mpu_store, u, n, Body(u, n))
    /\ IF PartResult(u, n) \in Range(collected)
       THEN /\ <<u, n>> \notin reruns
            /\ Cardinality(reruns) < MaxReruns
            /\ reruns' = reruns \cup {<<u, n>>}
            /\ UNCHANGED collected
       ELSE /\ Len(collected) < MaxCollected
            /\ collected' = Append(collected, PartResult(u, n))
            /\ UNCHANGED reruns
    /\ UNCHANGED <<mpu_ids, expected, cpc, completions, leftover>>
    /\ UNCHANGED notMpu

\* The coordinator runs on what has been collected (a failed worker is not
\* in the result set).
complete_multipart ==
    /\ cpc = "collecting"
    /\ mpu_ids # <<>>
    /\ LET keys == create_multipart_keys(RunId, Len(mpu_ids)) IN
         /\ completions' = CompleteMultipartCalls(keys, mpu_ids, collected)
         /\ leftover' = CompleteMultipartLeft(keys, mpu_ids, collected)
    /\ cpc' = "done"
    /\ UNCHANGED <<mpu_ids, expected, collected, mpu_store, reruns>>
    /\ UNCHANGED notMpu

\* The single-upload variant, for the i-th upload of the batch.
finish(i) ==
    /\ cpc = "collecting"
    /\ i \in DOMAIN mpu_ids
    /\ completions' = FinishCalls(create_multipart_keys(RunId, Len(mpu_ids))[i],
                                  mpu_ids[i], collected)
    /\ leftover' = collected
    /\ cpc' = "finished"
    /\ UNCHANGED <<mpu_ids, expected, collected, mpu_store, reruns>>
    /\ UNCHANGED notMpu

MpuNext ==
    \/ \E u \in UploadIds, n \in 1..MaxParts : create_multipart(u, n)
    \/ \E u \in UploadIds, n \in 1..MaxParts : reduce_function(u, n)
    \/ complete_multipart
    \/ \E i \in 1..MaxUploads : finish(i)

\* ------------------------------------------------------------------------
\* Partition balancer: distribute_indexes (reducer/reduce_functions.py)
\* ------------------------------------------------------------------------
\* The name of the i-th source key (an object name, not a value of the key
\* column): a negative number, the key column holding positive ones.
SourceKey(i) == 0 - i

\* The budgets the walk is run with: the code's own, and scaled-down ones
\* that let a handful of records reach the threshold.
Budgets == (1..MaxBudget) \cup {MAX_INDEXES}

\* The key column of one source object, as the select returns it: the
\* rows of a pileup object are in ascending position order.
SourceRows == {r \in SeqsUpTo(1..MaxKey, MaxRecords) : IsSorted(r)}

\* count_indexes.get(index, 0) over the dict kept as [k, c] entries in
\* insertion order.
DictHas(d, k) == \E i \in DOMAIN d : d[i].k = k

DictGet(d, k) ==
    IF DictHas(d, k)
    THEN d[CHOOSE i \in DOMAIN d : d[i].k = k].c
    ELSE 0

\* count_indexes[index] = count_indexes.get(index, 0) + 1: a new key goes
\* to the end, a known key keeps its place.
DictIncr(d, k) ==
    IF DictHas(d, k)
    THEN [i \in DOMAIN d |-> IF d[i].k = k THEN [k |-> k, c |-> d[i].c + 1]
                                         ELSE d[i]]
    ELSE Append(d, [k |-> k, c |-> 1])

\* for index in int_indexes: count_indexes[index] = ... (lines 129-130):
\* the rows are counted one by one from first to last (the first half of
\* the rows, then the second half on the dict the first half left).
RECURSIVE CountRows(_, _)
CountRows(d, rows) ==
    IF rows = <<>> THEN d
    ELSE IF Len(rows) = 1 THEN DictIncr(d, rows[1])
    ELSE LET h == Len(rows) \div 2
             first == CountRows(d, SubSeq(rows, 1, h))
         IN IF first = <<>> THEN first
            ELSE CountRows(first, SubSeq(rows, h + 1, Len(rows)))

\* The key column of a source object holding e.c records of key e.k for
\* each entry e of counts, in the order of counts.
RECURSIVE RowsOf(_)
RowsOf(counts) ==
    IF counts = <<>> THEN <<>>
    ELSE [i \in 1..Head(counts).c |-> Head(counts).k] \o RowsOf(Tail(counts))

\* A run on one pileup object with 5 records for each of the keys 1 to 4
\* and 90 records of key 5, the threshold of line 137 scaled down to 10.
ExampleRun ==
    [sources |-> <<RowsOf(<<[k |-> 1, c |-> 5], [k |-> 2, c |-> 5],
                           [k |-> 3, c |-> 5], [k |-> 4, c |-> 5],
                           [k |-> 5, c |-> 90]>>)>>,
     budget |-> 10]

BalInit ==
    /\ \/ /\ sources \in {s \in SeqsUpTo(SourceRows, MaxSources) : s # <<>>}
          /\ budget \in Budgets
       \/ /\ sources = ExampleRun.sources
          /\ budget = ExampleRun.budget
    /\ bpc = "query"
    /\ qi = 0
    /\ count_indexes = <<>>
    /\ index = <<>>
    /\ key = <<>>
    /\ indexes = 0
    /\ wi = 0
    /\ workers_data = <<>>

\* One turn of `for key in keys` (lines 109-130): the select on the next
\* source key, and its rows counted. The loop variable `index` keeps the
\* last row's value when the rows are not empty.
QuerySource ==
    /\ bpc = "query"
    /\ qi < Len(sources)
    /\ LET rows == sources[qi + 1] IN
         /\ key' = <<SourceKey(qi + 1)>>
         /\ count_indexes' = CountRows(count_indexes, rows)
         /\ index' = IF rows = <<>> THEN index ELSE <<rows[Len(rows)]>>
    /\ qi' = qi + 1
    /\ UNCHANGED <<sources, budget, bpc, indexes, wi, workers_data>>
    /\ UNCHANGED notBal

\* Lines 137-139: the walk starts.
StartWalk ==
    /\ bpc = "query"
    /\ qi = Len(sources)
    /\ bpc' = "walk"
    /\ indexes' = 0
    /\ workers_data' = <<>>
    /\ UNCHANGED <<sources, budget, qi, count_indexes, index, key, wi>>
    /\ UNCHANGED notBal

\* The branch taken for one dict entry (line 142).
Fits(acc, c, max) == acc + c < max

\* One turn of `for key in count_indexes` (lines 141-147). Reading
\* `index` before any assignment raises (UnboundLocalError).
WalkKey ==
    /\ bpc = "walk"
    /\ wi < Len(count_indexes)
    /\ LET e == count_indexes[wi + 1] IN
         /\ key' = <<e.k>>
         /\ IF Fits(indexes, e.c, budget)
            THEN /\ indexes' = indexes + e.c
                 /\ index' = <<e.k>>
                 /\ UNCHANGED <<workers_data, bpc>>
            ELSE /\ indexes' = 0
                 /\ UNCHANGED index
                 /\ IF index = <<>>
                    THEN /\ bpc' = "error"
                         /\ UNCHANGED workers_data
                    ELSE /\ workers_data' = Append(workers_data, index[1])
                         /\ UNCHANGED bpc
    /\ wi' = wi + 1
    /\ UNCHANGED <<sources, budget, qi, count_indexes>>
    /\ UNCHANGED notBal

\* Line 148 and the return: the last value of `key` closes the list.
FinishWalk ==
    /\ bpc = "walk"
    /\ wi = Len(count_indexes)
    /\ workers_data' = Append(workers_data, key[1])
    /\ bpc' = "done"
    /\ UNCHANGED <<sources, budget, qi, count_indexes, index, key, indexes, wi>>
    /\ UNCHANGED notBal

\* No select has failed. An error is kept with the function that raised
\* it, the source key whose select failed, and the source key its message
\* names (none: <<>>).
NoError == [in |-> "none", failed |-> <<>>, named |-> <<>>]

\* What the storage client raises when a select fails on source key k: its
\* message may or may not name the key.
ClientError(k, says) == IF says THEN <<k>> ELSE <<>>

\* The error that leaves distribute_indexes when the select on k fails
\* (110-117): the call is in no try block, the client's error goes up as
\* it is.
ErrorOfDistribute(k, says) ==
    [in |-> "distribute_indexes", failed |-> <<k>>, named |-> ClientError(k, says)]

\* The error that leaves reduce_function when the select on k fails: the
\* call is wrapped, ValueError("ERROR IN KEY: " + k) (33-42); the reading
\* of the event stream is not (44-48).
ErrorOfReduce(k, at, says) ==
    [in |-> "reduce_function", failed |-> <<k>>,
     named |-> IF at = "call" THEN <<k>> ELSE ClientError(k, says)]

\* One turn of `for key in keys` (109-117) in which the select fails:
\* distribute_indexes ends there, nothing is returned.
QuerySourceRaises ==
    /\ bpc = "query"
    /\ qi < Len(sources)
    /\ query_error = NoError
    /\ key' = <<SourceKey(qi + 1)>>
    /\ bpc' = "raised"
    /\ \E says \in BOOLEAN :
          query_error' = ErrorOfDistribute(SourceKey(qi + 1), says)
    /\ UNCHANGED <<sources, budget, qi, count_indexes, index, indexes, wi,
                   workers_data>>
    /\ UNCHANGED <<mpuVars, stageVars, keyVars>>

\* A reduce worker of part n of upload u whose select on its j-th source
\* key fails, at the call or while the event stream is read (31-48): the
\* function ends there, before the merge and the upload_part. The workers
\* are dispatched once the boundaries are returned.
reduce_function_raises(u, n, j, at) ==
    /\ bpc = "done"
    /\ cpc = "collecting"
    /\ u \in Range(mpu_ids)
    /\ n \in 1..ExpectedOf(u)
    /\ j \in DOMAIN SplitKeys(u)
    /\ query_error = NoError
    /\ \E says \in BOOLEAN :
          query_error' = ErrorOfReduce(SplitKeys(u)[j], at, says)
    /\ UNCHANGED <<mpuVars, balVars, stageVars, keyVars>>

BalNext ==
    \/ QuerySource
    \/ StartWalk
    \/ WalkKey
    \/ FinishWalk

\* ------------------------------------------------------------------------
\* Chunk stage functions (mapping/alignment_mapper.py)
\* ------------------------------------------------------------------------
\* Worker processes of the serverless layer; each runs one invocation at a
\* time and keeps its working directory and files between invocations.
Workers == {"w1", "w2"}

Stages == {"gem_indexer", "align_mapper", "index_correction",
           "filter_index_to_mpileup"}

\* The chunks and run of the pipeline under study.
FastaChunkIds == {0}
FastqChunkIds == {0}
Runs == {RunId}
\* A later run of the pipeline against the same reference.
OtherRunId == "run2"
TwoRuns == {RunId, OtherRunId}

\* okey=f"gem/{fasta_chunk_id}.gem" (lines 34, 38, 77)
GemKey(fa) ==
    [prefix |-> "gem", run |-> "", stage |-> "", fq |-> -1, fa |-> fa,
     file |-> ".gem"]

\* map_index_key (lines 113-120)
MapIndexKey(run, fq, fa) ==
    [prefix |-> "tmp_prefix", run |-> run, stage |-> "gem-mapper", fq |-> fq,
     fa |-> fa, file |-> "_map.index.txt.bz2"]

\* filtered_map_key (lines 121-128)
FilteredMapKey(run, fq, fa) ==
    [prefix |-> "tmp_prefix", run |-> run, stage |-> "gem-mapper", fq |-> fq,
     fa |-> fa, file |-> "_filt_wline_no.map.bz2"]

\* corrected_index_key (lines 258-264)
CorrectedIndexKey(run, fq) ==
    [prefix |-> "tmp_prefix", run |-> run, stage |-> "index-correction",
     fq |-> fq, fa |-> -1, file |-> "merged_filtered_index.txt.bz2"]

\* mpipleup_key (lines 387-394)
MpileupKey(run, fq, fa) ==
    [prefix |-> "tmp_prefix", run |-> run, stage |-> "mpileups", fq |-> fq,
     fa |-> fa, file |-> "_filt_wline_no_corrected.map.mpileup"]

AllKeys ==
    {GemKey(a) : a \in FastaChunkIds}
    \cup {MapIndexKey(r, q, a) : r \in Runs, q \in FastqChunkIds, a \in FastaChunkIds}
    \cup {FilteredMapKey(r, q, a) : r \in Runs, q \in FastqChunkIds, a \in FastaChunkIds}
    \cup {CorrectedIndexKey(r, q) : r \in Runs, q \in FastqChunkIds}
    \cup {MpileupKey(r, q, a) : r \in Runs, q \in FastqChunkIds, a \in FastaChunkIds}

RECURSIVE SortedSeq(_)
SortedSeq(S) ==
    IF S = {} THEN <<>>
    ELSE LET m == CHOOSE x \in S : \A y \in S : x <= y
         IN <<m>> \o SortedSeq(S \ {m})

\* The objects an invocation downloads, in the order of the code:
\* align_mapper the gem index (163), index_correction every map index of
\* its fastq chunk (281-286), filter_index_to_mpileup the filtered map and
\* the corrected index (419, 433).
Inputs(i) ==
    CASE i.stage = "gem_indexer" -> <<>>
      [] i.stage = "align_mapper" -> <<GemKey(i.fa)>>
      [] i.stage = "index_correction" ->
            LET fas == SortedSeq(FastaChunkIds)
            IN [j \in DOMAIN fas |-> MapIndexKey(i.run, i.fq, fas[j])]
      [] i.stage = "filter_index_to_mpileup" ->
            <<FilteredMapKey(i.run, i.fq, i.fa), CorrectedIndexKey(i.run, i.fq)>>
      [] OTHER -> <<>>

\* Variant: the filtered map comes before the map index.
OutputsFilteredMapFirst(i) ==
    <<FilteredMapKey(i.run, i.fq, i.fa), MapIndexKey(i.run, i.fq, i.fa)>>

\* Variant: every stage knows only the map index as its output.
OutputsFirstKeyOnly(i) == <<MapIndexKey(i.run, i.fq, i.fa)>>

\* The objects an invocation probes for and uploads, in the order of the
\* code.
Outputs(i) ==
    CASE i.stage = "gem_indexer" -> <<GemKey(i.fa)>>
      [] i.stage = "align_mapper" ->
            <<MapIndexKey(i.run, i.fq, i.fa), FilteredMapKey(i.run, i.fq, i.fa)>>
      [] i.stage = "index_correction" -> <<CorrectedIndexKey(i.run, i.fq)>>
      [] i.stage = "filter_index_to_mpileup" -> <<MpileupKey(i.run, i.fq, i.fa)>>
      [] OTHER -> <<>>

\* Variant: the archive member keeps the path of the temporary directory.
ArcNameWithDir(dir, file) == [dir |-> dir, name |-> file]

\* The archive member name of an uploaded file: PurePosixPath(...).name
\* drops the directory (lines 200, 205); the other files are named
\* relative to the working directory.
ArcName(dir, file) == [dir |-> 0, name |-> file]

Absent == [arc |-> [dir |-> 0, name |-> ""], ok |-> FALSE]

\* The object is in the store.
Exists(okey) == store[okey] # Absent

\* Variant: the existence check finds only objects stored under a run id.
head_object_of_a_run(okey) == Exists(okey) /\ okey.run # ""

\* Variant: the existence check never finds anything.
head_object_never(okey) == FALSE

\* storage.head_object returns (it raises StorageNoSuchKeyError otherwise).
head_object(okey) == Exists(okey)

\* What an external tool can do on given inputs: succeed, fail leaving
\* (partial) output files, fail leaving none.
ToolOutcomes == {"ok", "fail_out", "fail_none"}

\* The stages whose code tests the tool's exit status: gem_indexer (the
\* assert of line 72) and index_correction (check_returncode, 313, 321).
StatusChecked(stage) == stage \in {"gem_indexer", "index_correction"}

\* The finally blocks (89-91, 230-231, 344-347, 500-502): align_mapper's
\* only prints.
FinallyCwd(stage, saved, current) ==
    IF stage = "align_mapper" THEN current ELSE saved

FinallyDirs(stage, existing, made) ==
    IF stage = "align_mapper" THEN existing ELSE existing \ made

NoInv == [stage |-> "none", run |-> "", fa |-> -1, fq |-> -1]

\* No value returned (yet).
NoResult == [some |-> FALSE, ids |-> <<>>, keys |-> <<>>]

\* What a function returns when it skips, its stats left out, as the chunk
\* ids and the keys of the returned tuple, each in its order: gem_indexer
\* the stats only (40), align_mapper the chunk ids and its two keys (136),
\* index_correction the fastq chunk id and its key (271),
\* filter_index_to_mpileup its key (401).
ReturnedOnSkip(i) ==
    CASE i.stage = "gem_indexer" -> [some |-> TRUE, ids |-> <<>>, keys |-> <<>>]
      [] i.stage = "align_mapper" ->
            [some |-> TRUE, ids |-> <<i.fq, i.fa>>,
             keys |-> <<MapIndexKey(i.run, i.fq, i.fa),
                        FilteredMapKey(i.run, i.fq, i.fa)>>]
      [] i.stage = "index_correction" ->
            [some |-> TRUE, ids |-> <<i.fq>>,
             keys |-> <<CorrectedIndexKey(i.run, i.fq)>>]
      [] i.stage = "filter_index_to_mpileup" ->
            [some |-> TRUE, ids |-> <<>>, keys |-> <<MpileupKey(i.run, i.fq, i.fa)>>]
      [] OTHER -> NoResult

\* Variant: after computing, filter_index_to_mpileup returns the key of
\* the map it corrected.
ReturnedInputKey(i) ==
    CASE i.stage = "gem_indexer" -> [some |-> TRUE, ids |-> <<>>, keys |-> <<>>]
      [] i.stage = "align_mapper" ->
            [some |-> TRUE, ids |-> <<i.fq, i.fa>>,
             keys |-> <<MapIndexKey(i.run, i.fq, i.fa),
                        FilteredMapKey(i.run, i.fq, i.fa)>>]
      [] i.stage = "index_correction" ->
            [some |-> TRUE, ids |-> <<i.fq>>,
             keys |-> <<CorrectedIndexKey(i.run, i.fq)>>]
      [] i.stage = "filter_index_to_mpileup" ->
            [some |-> TRUE, ids |-> <<>>,
             keys |-> <<FilteredMapKey(i.run, i.fq, i.fa)>>]
      [] OTHER -> NoResult

\* What a function returns after computing, its stats left out (88, 229,
\* 343, 498); filter_index_to_mpileup builds its key a second time before
\* the upload (474-481), from the same values.
ReturnedOnCompute(i) ==
    CASE i.stage = "gem_indexer" -> [some |-> TRUE, ids |-> <<>>, keys |-> <<>>]
      [] i.stage = "align_mapper" ->
            [some |-> TRUE, ids |-> <<i.fq, i.fa>>,
             keys |-> <<MapIndexKey(i.run, i.fq, i.fa),
                        FilteredMapKey(i.run, i.fq, i.fa)>>]
      [] i.stage = "index_correction" ->
            [some |-> TRUE, ids |-> <<i.fq>>,
             keys |-> <<CorrectedIndexKey(i.run, i.fq)>>]
      [] i.stage = "filter_index_to_mpileup" ->
            [some |-> TRUE, ids |-> <<>>, keys |-> <<MpileupKey(i.run, i.fq, i.fa)>>]
      [] OTHER -> NoResult

Terminal == {"skipped", "returned", "raised"}

StageIdle ==
    /\ store = [okey \in AllKeys |-> Absent]
    /\ tool = [st \in Stages |-> "ok"]
    /\ pc = [p \in Workers |-> "idle"]
    /\ inv = [p \in Workers |-> NoInv]
    /\ turn = [p \in Workers |-> 0]
    /\ tmp = [p \in Workers |-> <<>>]
    /\ pwd = [p \in Workers |-> 0]
    /\ cwd = [p \in Workers |-> 0]
    /\ dirs = [p \in Workers |-> {}]
    /\ got = [p \in Workers |-> <<>>]
    /\ out = [p \in Workers |-> "none"]
    /\ uploaded = [p \in Workers |-> {}]
    /\ ran = [p \in Workers |-> FALSE]
    /\ toolFailed = [p \in Workers |-> FALSE]
    /\ entry = [p \in Workers |-> {}]
    /\ result = [p \in Workers |-> NoResult]
    /\ returned = {}
    /\ abandoned = FALSE

\* The tools are deterministic: what each does on the inputs of this run
\* is fixed for the whole behaviour. At most one of them fails.
ToolScenarios ==
    {t \in [Stages -> ToolOutcomes] :
        Cardinality({st \in Stages : t[st] # "ok"}) <= 1}

StageInit ==
    /\ store = [okey \in AllKeys |-> Absent]
    /\ tool \in ToolScenarios
    /\ pc = [p \in Workers |-> "idle"]
    /\ inv = [p \in Workers |-> NoInv]
    /\ turn = [p \in Workers |-> 0]
    /\ tmp = [p \in Workers |-> <<>>]
    /\ pwd = [p \in Workers |-> 0]
    /\ cwd = [p \in Workers |-> 0]
    /\ dirs = [p \in Workers |-> {}]
    /\ got = [p \in Workers |-> <<>>]
    /\ out = [p \in Workers |-> "none"]
    /\ uploaded = [p \in Workers |-> {}]
    /\ ran = [p \in Workers |-> FALSE]
    /\ toolFailed = [p \in Workers |-> FALSE]
    /\ entry = [p \in Workers |-> {}]
    /\ result = [p \in Workers |-> NoResult]
    /\ returned = {}
    /\ abandoned = FALSE

\* The invocation of worker p leaves its function, by return or by an
\* exception: the finally block runs and the locals are gone.
Exit(p, how) ==
    /\ pc' = [pc EXCEPT ![p] = how]
    /\ cwd' = [cwd EXCEPT ![p] = FinallyCwd(inv[p].stage, pwd[p], cwd[p])]
    /\ dirs' = [dirs EXCEPT ![p] = FinallyDirs(inv[p].stage, dirs[p], Range(tmp[p]))]
    /\ got' = [got EXCEPT ![p] = <<>>]
    /\ out' = [out EXCEPT ![p] = "none"]
    /\ turn' = [turn EXCEPT ![p] = 0]

\* The entry of a stage function on worker p with arguments i. Each
\* function saves os.getcwd() before its first chdir.
Enter(p, i) ==
    /\ inv' = [inv EXCEPT ![p] = i]
    /\ entry' = [entry EXCEPT ![p] = {okey \in Range(Outputs(i)) : Exists(okey)}]
    /\ pc' = [pc EXCEPT ![p] = IF i.stage = "filter_index_to_mpileup"
                               THEN "mkdtemp" ELSE "probe"]
    /\ turn' = [turn EXCEPT ![p] = 0]
    /\ tmp' = [tmp EXCEPT ![p] = <<>>]
    /\ got' = [got EXCEPT ![p] = <<>>]
    /\ out' = [out EXCEPT ![p] = "none"]
    /\ uploaded' = [uploaded EXCEPT ![p] = {}]
    /\ ran' = [ran EXCEPT ![p] = FALSE]
    /\ toolFailed' = [toolFailed EXCEPT ![p] = FALSE]
    /\ result' = [result EXCEPT ![p] = NoResult]
    /\ UNCHANGED <<store, tool, returned, abandoned>>
    /\ UNCHANGED notStage

\* The serverless layer runs stage st in a new worker process.
Start(p, st, r, a, q) ==
    /\ pc[p] \in Terminal \cup {"idle"}
    /\ Enter(p, [stage |-> st, run |-> r, fa |-> a, fq |-> q])
    /\ pwd' = [pwd EXCEPT ![p] = 0]
    /\ cwd' = [cwd EXCEPT ![p] = 0]
    /\ dirs' = [dirs EXCEPT ![p] = {}]

\* The serverless layer runs stage st in the worker process that ran the
\* previous invocation: its working directory and its files are as that
\* invocation left them.
StartWarm(p, st, r, a, q) ==
    /\ pc[p] \in Terminal
    /\ Enter(p, [stage |-> st, run |-> r, fa |-> a, fq |-> q])
    /\ pwd' = [pwd EXCEPT ![p] = cwd[p]]
    /\ UNCHANGED <<cwd, dirs>>

\* One storage.head_object of the existence check (37-42, 131-139,
\* 267-274, 397-405): the next output okey is probed; the function returns
\* when the last one exists, and goes on to compute at the first missing.
Probe(p) ==
    /\ pc[p] = "probe"
    /\ LET outs == Outputs(inv[p])
           st == inv[p].stage
       IN IF head_object(outs[turn[p] + 1])
          THEN /\ IF turn[p] + 1 = Len(outs)
                  THEN /\ pc' = [pc EXCEPT ![p] = "skipped"]
                       /\ turn' = [turn EXCEPT ![p] = 0]
                       /\ returned' = returned \cup {st}
                       /\ result' = [result EXCEPT ![p] = ReturnedOnSkip(inv[p])]
                  ELSE /\ turn' = [turn EXCEPT ![p] = turn[p] + 1]
                       /\ UNCHANGED <<pc, returned, result>>
               /\ UNCHANGED cwd
          ELSE /\ pc' = [pc EXCEPT ![p] = IF st = "filter_index_to_mpileup"
                                          THEN "download" ELSE "mkdtemp"]
               /\ cwd' = [cwd EXCEPT ![p] = IF st = "filter_index_to_mpileup"
                                            THEN tmp[p][1] ELSE cwd[p]]
               /\ turn' = [turn EXCEPT ![p] = 0]
               /\ UNCHANGED <<returned, result>>
    /\ UNCHANGED <<store, tool, inv, tmp, pwd, dirs, got, out, uploaded, ran,
                   toolFailed, entry, abandoned>>
    /\ UNCHANGED notStage

\* The names tempfile.mkdtemp can give: any that does not exist yet.
FreshDirs(existing) == (1..MaxDirs) \ existing

\* tempfile.mkdtemp (45, 142, 277-278, 379), and the chdir that follows it
\* in gem_indexer and align_mapper (47, 144).
MkDtemp(p) ==
    /\ pc[p] = "mkdtemp"
    /\ \E d1 \in FreshDirs(dirs[p]), d2 \in FreshDirs(dirs[p]) :
       LET st == inv[p].stage
           made == IF st = "index_correction" THEN <<d1, d2>> ELSE <<d1>>
       IN /\ IF st = "index_correction" THEN d1 # d2 ELSE d1 = d2
          /\ tmp' = [tmp EXCEPT ![p] = made]
          /\ dirs' = [dirs EXCEPT ![p] = dirs[p] \cup Range(made)]
          /\ cwd' = [cwd EXCEPT ![p] = IF st \in {"gem_indexer", "align_mapper"}
                                       THEN d1 ELSE cwd[p]]
          /\ pc' = [pc EXCEPT ![p] =
                      IF st = "filter_index_to_mpileup" THEN "probe"
                      ELSE IF Inputs(inv[p]) = <<>> THEN "tool" ELSE "download"]
    /\ UNCHANGED <<store, tool, inv, turn, pwd, got, out, uploaded, ran,
                   toolFailed, entry, result, returned, abandoned>>
    /\ UNCHANGED notStage

\* Variant: a download of a missing object gives an empty file and the
\* function goes on.
DownloadIgnoringAbsence(p) ==
    /\ pc[p] = "download"
    /\ got' = [got EXCEPT ![p] = Append(got[p], store[Inputs(inv[p])[turn[p] + 1]])]
    /\ IF turn[p] + 1 = Len(Inputs(inv[p]))
       THEN /\ pc' = [pc EXCEPT ![p] = "tool"]
            /\ turn' = [turn EXCEPT ![p] = 0]
       ELSE /\ turn' = [turn EXCEPT ![p] = turn[p] + 1]
            /\ UNCHANGED pc
    /\ UNCHANGED <<store, tool, inv, tmp, pwd, cwd, dirs, out, uploaded, ran,
                   toolFailed, entry, result, returned, abandoned>>
    /\ UNCHANGED notStage

\* One storage.download_file (163, 284, 419, 433): a missing object raises
\* StorageNoSuchKeyError. index_correction changes to its output directory
\* after the last one (302).
Download(p) ==
    /\ pc[p] = "download"
    /\ LET ins == Inputs(inv[p])
           okey == ins[turn[p] + 1]
       IN IF ~Exists(okey)
          THEN /\ Exit(p, "raised")
               /\ UNCHANGED <<store, tool, inv, tmp, pwd, uploaded, ran,
                              toolFailed, entry, result, returned, abandoned>>
          ELSE /\ got' = [got EXCEPT ![p] = Append(got[p], store[okey])]
               /\ IF turn[p] + 1 = Len(ins)
                  THEN /\ pc' = [pc EXCEPT ![p] = "tool"]
                       /\ turn' = [turn EXCEPT ![p] = 0]
                       /\ cwd' = [cwd EXCEPT ![p] =
                                    IF inv[p].stage = "index_correction"
                                    THEN tmp[p][2] ELSE cwd[p]]
                  ELSE /\ turn' = [turn EXCEPT ![p] = turn[p] + 1]
                       /\ UNCHANGED <<pc, cwd>>
               /\ UNCHANGED <<store, tool, inv, tmp, pwd, dirs, out, uploaded,
                              ran, toolFailed, entry, result, returned, abandoned>>
    /\ UNCHANGED notStage

\* The files the tool leaves, given what it does and what it was fed.
ToolOutput(outcome, inputs) ==
    IF outcome = "fail_none" THEN "none"
    ELSE IF outcome = "ok" /\ \A j \in DOMAIN inputs : inputs[j].ok THEN "good"
    ELSE "bad"

\* Does the function raise once its tool has run with this outcome:
\* gem_indexer and index_correction on any failure (72, 313, 321),
\* align_mapper when the files it moves are not there (190, 194),
\* filter_index_to_mpileup never (458-470).
RaisesAfterTool(stage, outcome) ==
    \/ StatusChecked(stage) /\ outcome # "ok"
    \/ stage = "align_mapper" /\ outcome = "fail_none"

\* The external tool runs (68, 185, 310-321, 458-468), and the outputs are
\* moved and compressed.
Tool(p) ==
    /\ pc[p] = "tool"
    /\ ran' = [ran EXCEPT ![p] = TRUE]
    /\ toolFailed' = [toolFailed EXCEPT ![p] = tool[inv[p].stage] # "ok"]
    /\ IF RaisesAfterTool(inv[p].stage, tool[inv[p].stage])
       THEN Exit(p, "raised")
       ELSE /\ out' = [out EXCEPT ![p] = ToolOutput(tool[inv[p].stage], got[p])]
            /\ pc' = [pc EXCEPT ![p] = "upload"]
            /\ UNCHANGED <<turn, cwd, dirs, got>>
    /\ UNCHANGED <<store, tool, inv, tmp, pwd, uploaded, entry, result, returned,
                   abandoned>>
    /\ UNCHANGED notStage

\* Variant: the upload truncates the file.
ContentTruncated(p, okey) ==
    [arc |-> [dir |-> 0, name |-> okey.file], ok |-> FALSE]

\* The object storage.upload_file writes under okey.
Content(p, okey) ==
    [arc |-> ArcName(tmp[p][1], okey.file), ok |-> out[p] = "good"]

\* One storage.upload_file (76, 209, 217, 332, 482): the local file must
\* be there. The function returns after the last one.
Upload(p) ==
    /\ pc[p] = "upload"
    /\ LET outs == Outputs(inv[p])
           okey == outs[turn[p] + 1]
       IN IF out[p] = "none"
          THEN /\ Exit(p, "raised")
               /\ UNCHANGED <<store, uploaded, returned, result>>
          ELSE /\ store' = [store EXCEPT ![okey] = Content(p, okey)]
               /\ uploaded' = [uploaded EXCEPT ![p] = uploaded[p] \cup {okey}]
               /\ IF turn[p] + 1 = Len(outs)
                  THEN /\ Exit(p, "returned")
                       /\ returned' = returned \cup {inv[p].stage}
                       /\ result' = [result EXCEPT ![p] = ReturnedOnCompute(inv[p])]
                  ELSE /\ turn' = [turn EXCEPT ![p] = turn[p] + 1]
                       /\ UNCHANGED <<pc, cwd, dirs, got, out, returned, result>>
    /\ UNCHANGED <<tool, inv, tmp, pwd, ran, toolFailed, entry, abandoned>>
    /\ UNCHANGED notStage

\* A step of the compute path raises for a reason of the environment (a
\* chunk cannot be fetched, the store or the disk fails).
Raise(p) ==
    /\ pc[p] \in {"download", "tool", "upload"}
    /\ Exit(p, "raised")
    /\ UNCHANGED <<store, tool, inv, tmp, pwd, uploaded, ran, toolFailed,
                   entry, result, returned, abandoned>>
    /\ UNCHANGED notStage

\* The invocation is stopped between two steps (the run is abandoned, the
\* worker is killed): nothing of the function runs any more, and the
\* worker process is gone with its files.
Abandon(p) ==
    /\ pc[p] \in {"probe", "mkdtemp", "download", "tool", "upload"}
    /\ pc' = [pc EXCEPT ![p] = "idle"]
    /\ inv' = [inv EXCEPT ![p] = NoInv]
    /\ turn' = [turn EXCEPT ![p] = 0]
    /\ tmp' = [tmp EXCEPT ![p] = <<>>]
    /\ pwd' = [pwd EXCEPT ![p] = 0]
    /\ cwd' = [cwd EXCEPT ![p] = 0]
    /\ dirs' = [dirs EXCEPT ![p] = {}]
    /\ got' = [got EXCEPT ![p] = <<>>]
    /\ out' = [out EXCEPT ![p] = "none"]
    /\ uploaded' = [uploaded EXCEPT ![p] = {}]
    /\ ran' = [ran EXCEPT ![p] = FALSE]
    /\ toolFailed' = [toolFailed EXCEPT ![p] = FALSE]
    /\ entry' = [entry EXCEPT ![p] = {}]
    /\ result' = [result EXCEPT ![p] = NoResult]
    /\ abandoned' = TRUE
    /\ UNCHANGED <<store, tool, returned>>
    /\ UNCHANGED notStage

\* The run is abandoned, once.
AbandonRun(p) ==
    /\ ~abandoned
    /\ Abandon(p)

\* A run that is abandoned at some point and whose stages are invoked again
\* and again, with no failure of the environment.
ResumeNext ==
    \/ \E st \in Stages, r \in Runs, a \in FastaChunkIds, q \in FastqChunkIds :
          Start("w1", st, r, a, q)
    \/ Probe("w1")
    \/ MkDtemp("w1")
    \/ Download("w1")
    \/ Tool("w1")
    \/ Upload("w1")
    \/ AbandonRun("w1")

\* A started function runs on, and the driver invokes every stage again
\* whenever the worker is free.
ResumeFair ==
    /\ \A st \in Stages :
          SF_vars(\E r \in Runs, a \in FastaChunkIds, q \in FastqChunkIds :
                    Start("w1", st, r, a, q))
    /\ WF_vars(Probe("w1"))
    /\ WF_vars(MkDtemp("w1"))
    /\ WF_vars(Download("w1"))
    /\ WF_vars(Tool("w1"))
    /\ WF_vars(Upload("w1"))

\* One worker process taking one invocation after the other.
WorkerNext ==
    \/ \E st \in Stages, r \in Runs, a \in FastaChunkIds, q \in FastqChunkIds :
          Start("w1", st, r, a, q)
    \/ \E st \in Stages, r \in Runs, a \in FastaChunkIds, q \in FastqChunkIds :
          StartWarm("w1", st, r, a, q)
    \/ Probe("w1")
    \/ MkDtemp("w1")
    \/ Download("w1")
    \/ Tool("w1")
    \/ Upload("w1")
    \/ Raise("w1")
    \/ Abandon("w1")

\* The index build of the same reference chunk invoked in two runs.
RunsNext ==
    \/ \E p \in Workers, r \in TwoRuns, a \in FastaChunkIds, q \in FastqChunkIds :
          Start(p, "gem_indexer", r, a, q)
    \/ \E p \in Workers : Probe(p)
    \/ \E p \in Workers : MkDtemp(p)
    \/ \E p \in Workers : Tool(p)
    \/ \E p \in Workers : Upload(p)
    \/ \E p \in Workers : Raise(p)
    \/ \E p \in Workers : Abandon(p)

\* Several worker processes, each invocation in a new one.
StageNext ==
    \/ \E p \in Workers, st \in Stages, r \in Runs, a \in FastaChunkIds,
          q \in FastqChunkIds : Start(p, st, r, a, q)
    \/ \E p \in Workers : Probe(p)
    \/ \E p \in Workers : MkDtemp(p)
    \/ \E p \in Workers : Download(p)
    \/ \E p \in Workers : Tool(p)
    \/ \E p \in Workers : Upload(p)
    \/ \E p \in Workers : Raise(p)
    \/ \E p \in Workers : Abandon(p)

\* ------------------------------------------------------------------------
\* Object keys as strings, and keys_by_fasta_split
\* ------------------------------------------------------------------------
FastaSplitIds == 0..MaxFastaSplit
FastqIds == 0..MaxFastqChunk

\* str(n) of an id, one character after the other.
DigitChar == <<"0", "1", "2", "3", "4", "5", "6", "7", "8", "9">>

RECURSIVE Digits(_)
Digits(n) ==
    IF n < 10 THEN <<DigitChar[n + 1]>>
    ELSE Digits(n \div 10) \o <<DigitChar[(n % 10) + 1]>>

\* Variant: the key has no segment for the fastq chunk.
PathWithoutFastq(okey) ==
    CASE okey.prefix = "gem" -> <<<<"gem">>, Digits(okey.fa) \o <<".gem">>>>
      [] okey.stage = "multipart_uploads" ->
            <<<<"tmp">>, <<okey.run>>, <<"multipart_uploads">>,
              <<"fa">> \o Digits(okey.fa) \o <<".sinple">>>>
      [] okey.stage = "index-correction" ->
            <<<<okey.prefix>>, <<okey.run>>, <<okey.stage>>, <<okey.file>>>>
      [] OTHER ->
            <<<<okey.prefix>>, <<okey.run>>, <<okey.stage>>,
              <<"fa">> \o Digits(okey.fa), <<"name", okey.file>>>>

\* The string the code builds for a key, as its "/"-separated segments,
\* each a sequence of pieces: f"gem/{fasta_chunk_id}.gem" (38, 76), the
\* os.path.join of 113-128, 258-264 and 387-394, with the file name of 383-
\* 386, and f"tmp/{run_id}/multipart_uploads/fa{i}.sinple"
\* (reduce_functions.py 283). The ids are written digit by digit, "fa" and
\* "fq" are pieces of their own, and no other piece contains "/" or "fa".
Path(okey) ==
    CASE okey.prefix = "gem" -> <<<<"gem">>, Digits(okey.fa) \o <<".gem">>>>
      [] okey.stage = "multipart_uploads" ->
            <<<<"tmp">>, <<okey.run>>, <<"multipart_uploads">>,
              <<"fa">> \o Digits(okey.fa) \o <<".sinple">>>>
      [] okey.stage = "index-correction" ->
            <<<<okey.prefix>>, <<okey.run>>, <<okey.stage>>,
              <<"fq">> \o Digits(okey.fq), <<okey.file>>>>
      [] okey.stage = "mpileups" ->
            <<<<okey.prefix>>, <<okey.run>>, <<okey.stage>>,
              <<"fq">> \o Digits(okey.fq), <<"fa">> \o Digits(okey.fa),
              <<"base_name", "_", "fa">> \o Digits(okey.fa) \o <<"-", "fq">>
                  \o Digits(okey.fq) \o <<okey.file>>>>
      [] OTHER ->
            <<<<okey.prefix>>, <<okey.run>>, <<okey.stage>>,
              <<"fq">> \o Digits(okey.fq), <<"fa">> \o Digits(okey.fa),
              <<"sra_accession", okey.file>>>>

\* The objects whose keys are derived: what is written (the gem index, the
\* map index, the filtered map, the corrected index, the pileup, a
\* multipart target) and the inputs its key is derived from ("" and -1:
\* not an input of that key).
Targets ==
    {[kind |-> "gem", run |-> "", fa |-> a, fq |-> -1] : a \in FastaSplitIds}
    \cup {[kind |-> k, run |-> r, fa |-> a, fq |-> q] :
            k \in {"map_index", "filtered_map", "mpileup"}, r \in TwoRuns,
            a \in FastaSplitIds, q \in FastqIds}
    \cup {[kind |-> "corrected_index", run |-> r, fa |-> -1, fq |-> q] :
            r \in TwoRuns, q \in FastqIds}
    \cup {[kind |-> "multipart", run |-> r, fa |-> a, fq |-> -1] :
            r \in TwoRuns, a \in FastaSplitIds}

\* The function that writes the object.
StageOfKind(kind) ==
    CASE kind = "gem" -> "gem_indexer"
      [] kind \in {"map_index", "filtered_map"} -> "align_mapper"
      [] kind = "corrected_index" -> "index_correction"
      [] kind = "mpileup" -> "filter_index_to_mpileup"
      [] OTHER -> "create_multipart_keys"

KeyOfTarget(t) ==
    CASE t.kind = "gem" -> GemKey(t.fa)
      [] t.kind = "map_index" -> MapIndexKey(t.run, t.fq, t.fa)
      [] t.kind = "filtered_map" -> FilteredMapKey(t.run, t.fq, t.fa)
      [] t.kind = "corrected_index" -> CorrectedIndexKey(t.run, t.fq)
      [] t.kind = "mpileup" -> MpileupKey(t.run, t.fq, t.fa)
      [] OTHER -> MultipartKey(t.run, t.fa)

\* k.split("/")[-1] (line 262).
LastSegment(path) == path[Len(path)]

\* s.split("fa")[-1] (line 263): what follows the last "fa", all of s when
\* there is none.
AfterLastFa(s) ==
    LET at == {i \in DOMAIN s : s[i] = "fa"}
    IN IF at = {} THEN s
       ELSE SubSeq(s, (CHOOSE i \in at : \A j \in at : j <= i) + 1, Len(s))

\* The group of a key (lines 262-264): fasta_split[0], one character.
FastaSplit(path) == <<AfterLastFa(LastSegment(path))[1]>>

\* key_dict[str(fasta_split)].append(k) on the defaultdict (line 265): a
\* new group goes to the end.
GroupAppend(d, g, k) ==
    IF \E e \in DOMAIN d : d[e].g = g
    THEN [e \in DOMAIN d |->
            IF d[e].g = g THEN [d[e] EXCEPT !.ks = Append(d[e].ks, k)] ELSE d[e]]
    ELSE Append(d, [g |-> g, ks |-> <<k>>])

\* The number of keys put in a group so far.
Grouped == SumSeq([e \in DOMAIN key_dict |-> Len(key_dict[e].ks)])

KeysIdle ==
    /\ tasks = <<>>
    /\ derived = <<>>
    /\ key_dict = <<>>

KeysInit ==
    /\ tasks \in {<<a, b>> : a \in Targets, b \in Targets}
    /\ derived = <<>>
    /\ key_dict = <<>>

\* The key of the next object is built.
DeriveKey ==
    /\ Len(derived) < Len(tasks)
    /\ derived' = Append(derived, Path(KeyOfTarget(tasks[Len(derived) + 1])))
    /\ UNCHANGED <<tasks, key_dict>>
    /\ UNCHANGED notKeys

\* One turn of `for k in keys` of keys_by_fasta_split (261-265), on the
\* pileup keys of the run or on its multipart keys.
keys_by_fasta_split ==
    /\ Len(derived) = Len(tasks)
    /\ \E kind \in {"mpileup", "multipart"} :
          \A i \in DOMAIN tasks : tasks[i].kind = kind
    /\ Grouped < Len(derived)
    /\ key_dict' = GroupAppend(key_dict, FastaSplit(derived[Grouped + 1]),
                               derived[Grouped + 1])
    /\ UNCHANGED <<tasks, derived>>
    /\ UNCHANGED notKeys

KeysNext ==
    \/ DeriveKey
    \/ keys_by_fasta_split

\* The balancer, then the reduce workers, with selects that can fail.
QueryNext ==
    \/ QuerySource
    \/ StartWalk
    \/ WalkKey
    \/ FinishWalk
    \/ QuerySourceRaises
    \/ \E u \in UploadIds, n \in 1..MaxParts, j \in 1..MaxSources,
          at \in {"call", "stream"} : reduce_function_raises(u, n, j, at)

\* ------------------------------------------------------------------------
\* Specifications
\* ------------------------------------------------------------------------
MpuIdle == MpuInit
BalIdle ==
    /\ sources = <<>>
    /\ budget = MAX_INDEXES
    /\ bpc = "idle"
    /\ qi = 0
    /\ count_indexes = <<>>
    /\ index = <<>>
    /\ key = <<>>
    /\ indexes = 0
    /\ wi = 0
    /\ workers_data = <<>>

InitMPU == (MpuInit \/ MpuExample) /\ BalIdle /\ StageIdle /\ query_error = NoError /\ KeysIdle
InitBal == BalInit /\ MpuIdle /\ StageIdle /\ query_error = NoError /\ KeysIdle
InitStage == StageInit /\ MpuIdle /\ BalIdle /\ query_error = NoError /\ KeysIdle
InitKeys == KeysInit /\ MpuIdle /\ BalIdle /\ StageIdle /\ query_error = NoError
\* The balancer on its inputs, the uploads of the reduce phase created.
InitQuery == BalInit /\ MpuCreated /\ StageIdle /\ query_error = NoError /\ KeysIdle

SpecMPU == InitMPU /\ [][MpuNext]_vars
SpecBal == InitBal /\ [][BalNext]_vars
SpecStage == InitStage /\ [][StageNext]_vars
SpecWorker == InitStage /\ [][WorkerNext]_vars
SpecResume == InitStage /\ [][ResumeNext]_vars /\ ResumeFair
SpecRuns == InitStage /\ [][RunsNext]_vars
SpecQuery == InitQuery /\ [][QueryNext]_vars
SpecKeys == InitKeys /\ [][KeysNext]_vars

\* ------------------------------------------------------------------------
\* Properties of the multipart upload coordinator
\* ------------------------------------------------------------------------
\* The (PartNumber, ETag) pairs of the collected parts of upload u.
OwnParts(u) ==
    {[PartNumber |-> collected[i].PartNumber, ETag |-> collected[i].ETag] :
        i \in {j \in DOMAIN collected : collected[j].mpu_id = u}}

\* How many completion calls list the collected part i.
TimesConsumed(i) ==
    Cardinality({c \in DOMAIN completions :
        /\ completions[c].UploadId = collected[i].mpu_id
        /\ \E j \in DOMAIN completions[c].Parts :
              completions[c].Parts[j].ETag = collected[i].ETag})

\* Every dispatched part has been collected.
AllCollected ==
    \A i \in DOMAIN mpu_ids :
        Cardinality(OwnParts(mpu_ids[i])) = expected[i]

\* C1: whatever the arrival interleaving of the collected parts,
\* complete_multipart issues for each upload one completion call listing
\* exactly the parts whose mpu_id is that upload's id, and every collected
\* part is consumed by exactly one completion call.
C1_EachUploadGetsExactlyItsParts ==
    (cpc = "done" /\ AllCollected) =>
        /\ Len(completions) = Len(mpu_ids)
        /\ \A i \in DOMAIN mpu_ids :
              /\ completions[i].UploadId = mpu_ids[i]
              /\ Range(completions[i].Parts) = OwnParts(mpu_ids[i])
        /\ \A i \in DOMAIN collected : TimesConsumed(i) = 1

\* C5: when fewer parts than expected have been collected for an upload,
\* the coordinator (complete_multipart or finish) issues no completion
\* call for that upload.
C5_NoCompletionWhenPartsMissing ==
    \A c \in DOMAIN completions :
        Cardinality(OwnParts(completions[c].UploadId))
            >= ExpectedOf(completions[c].UploadId)

\* The parts a completion call lists are those of the collected parts of
\* upload u, by ascending part number.
ListsOwnPartsInOrder(c, u) ==
    /\ c.UploadId = u
    /\ Range(c.Parts) = OwnParts(u)
    /\ \A i \in 1..(Len(c.Parts) - 1) :
          c.Parts[i].PartNumber < c.Parts[i + 1].PartNumber

\* C12: with the uploads U1, U2, U3 of two parts each and the collected
\* list [U1P1, U2P1, U1P2, U3P1, U2P2, U3P2], complete_multipart completes
\* each upload with both of its parts, by ascending part number.
C12_ExampleThreeUploads ==
    (/\ cpc = "done"
     /\ mpu_ids = <<1, 2, 3>>
     /\ collected = <<PartResult(1, 1), PartResult(2, 1), PartResult(1, 2),
                      PartResult(3, 1), PartResult(2, 2), PartResult(3, 2)>>) =>
        /\ Len(completions) = 3
        /\ \A i \in 1..3 :
              /\ ListsOwnPartsInOrder(completions[i], mpu_ids[i])
              /\ Len(completions[i].Parts) = 2

\* C18: every completion call issued by complete_multipart or finish
\* lists its parts by ascending part number, whatever the order in which
\* the parts of the upload were collected.
C18_CompletionListsPartsAscending ==
    \A c \in DOMAIN completions :
        \A i \in 1..(Len(completions[c].Parts) - 1) :
            completions[c].Parts[i].PartNumber
                < completions[c].Parts[i + 1].PartNumber

\* How far an upload has gone: 0 not created, 1 created, 2 collecting (a
\* part of it has been returned), 3 completed (a completion call names it).
Phase(ids, parts, calls, u) ==
    IF \E c \in DOMAIN calls : calls[c].UploadId = u THEN 3
    ELSE IF \E i \in DOMAIN parts : parts[i].mpu_id = u THEN 2
    ELSE IF u \in Range(ids) THEN 1
    ELSE 0

CallsFor(u) == {c \in DOMAIN completions : completions[c].UploadId = u}

\* C19: an upload is created before parts are collected for it and before
\* it is completed, it never moves back, and it is completed at most once;
\* when complete_multipart has run on a batch of distinct upload ids,
\* every upload of the batch has exactly one completion call.
C19_UploadCompletedExactlyOnce ==
    /\ [](/\ \A i \in DOMAIN collected : collected[i].mpu_id \in Range(mpu_ids)
          /\ \A c \in DOMAIN completions :
                /\ completions[c].UploadId \in Range(mpu_ids)
                /\ Cardinality(CallsFor(completions[c].UploadId)) = 1
          /\ cpc = "done" =>
                \A u \in Range(mpu_ids) : Cardinality(CallsFor(u)) = 1)
    /\ [][\A u \in 1..3 :
            /\ Phase(mpu_ids', collected', completions', u)
                  >= Phase(mpu_ids, collected, completions, u)
            /\ (Phase(mpu_ids, collected, completions, u) = 0
                 => Phase(mpu_ids', collected', completions', u) <= 1)]_vars

C19_Witness ==
    /\ cpc = "done"
    /\ Len(mpu_ids) = 2
    /\ AllCollected
    /\ \A u \in Range(mpu_ids) : ExpectedOf(u) = 2

\* The parts the store holds for part n of upload u.
HeldFor(u, n) ==
    {i \in DOMAIN mpu_store :
        mpu_store[i].UploadId = u /\ mpu_store[i].PartNumber = n}

PlaceOf(u) == CHOOSE i \in DOMAIN mpu_ids : mpu_ids[i] = u

\* The collected list is grouped by upload id, the groups in the order of
\* mpu_ids.
GroupedInOrder ==
    \A a, b \in DOMAIN collected :
        a < b => PlaceOf(collected[a].mpu_id) <= PlaceOf(collected[b].mpu_id)

\* C27: when the collected list is grouped by upload id and the groups
\* are in the order of mpu_ids, complete_multipart lists for every upload
\* exactly that upload's parts, each once, and no part is left over.
C27_GroupedListIsFullyConsumed ==
    (cpc = "done" /\ GroupedInOrder) =>
        /\ Len(completions) = Len(mpu_ids)
        /\ \A i \in DOMAIN mpu_ids :
              /\ completions[i].UploadId = mpu_ids[i]
              /\ Range(completions[i].Parts) = OwnParts(mpu_ids[i])
              /\ Len(completions[i].Parts) = Cardinality(OwnParts(mpu_ids[i]))
        /\ leftover = <<>>

C27_Witness ==
    /\ cpc = "done"
    /\ GroupedInOrder
    /\ Len(mpu_ids) = 2
    /\ Len(collected) = 4
    /\ \A i \in DOMAIN completions : Len(completions[i].Parts) = 2

\* C28: every (PartNumber, ETag) pair listed in the completion call of an
\* upload, by complete_multipart or by finish, is that of a collected part
\* whose mpu_id is that upload's id.
C28_NoForeignPartInCompletion ==
    \A c \in DOMAIN completions :
        Range(completions[c].Parts) \subseteq OwnParts(completions[c].UploadId)

C28_Witness ==
    /\ cpc \in {"done", "finished"}
    /\ ~GroupedInOrder
    /\ \E c \in DOMAIN completions : completions[c].Parts # <<>>

\* ------------------------------------------------------------------------
\* Properties of the partition balancer
\* ------------------------------------------------------------------------
ObservedKeys == {count_indexes[i].k : i \in DOMAIN count_indexes}

DomainMin == CHOOSE k \in ObservedKeys : \A j \in ObservedKeys : k <= j

\* The ranges formed from the returned boundaries.
RangeStart(i) == IF i = 1 THEN DomainMin ELSE workers_data[i - 1] + 1
RangeEnd(i) == workers_data[i]
KeysIn(i) == {k \in ObservedKeys : RangeStart(i) <= k /\ k <= RangeEnd(i)}

RECURSIVE CountOf(_)
CountOf(K) ==
    IF K = {} THEN 0
    ELSE LET k == CHOOSE x \in K : TRUE
         IN DictGet(count_indexes, k) + CountOf(K \ {k})

RECURSIVE SumRangeCounts(_)
SumRangeCounts(n) ==
    IF n = 0 THEN 0 ELSE CountOf(KeysIn(n)) + SumRangeCounts(n - 1)

BalancerReturned == bpc = "done" /\ count_indexes # <<>>

\* C2: the ranges formed from the returned boundaries are contiguous and
\* non-overlapping, cover every observed key, and their record counts sum
\* to the sum of all input counts.
C2_RangesPartitionTheKeys ==
    BalancerReturned =>
        /\ \A i \in DOMAIN workers_data : RangeStart(i) <= RangeEnd(i) + 1
        /\ \A i, j \in DOMAIN workers_data :
              i # j => KeysIn(i) \cap KeysIn(j) = {}
        /\ \A k \in ObservedKeys : \E i \in DOMAIN workers_data : k \in KeysIn(i)
        /\ SumRangeCounts(Len(workers_data)) = CountOf(ObservedKeys)

\* C3: no range holds more records than the budget, except a range of a
\* single key whose own count exceeds the budget.
C3_RangesWithinBudget ==
    BalancerReturned =>
        \A i \in DOMAIN workers_data :
            \/ CountOf(KeysIn(i)) <= budget
            \/ /\ Cardinality(KeysIn(i)) = 1
               /\ CountOf(KeysIn(i)) > budget
\* The keys the walk has gone through.
WalkedKeys == {count_indexes[j].k : j \in 1..wi}

\* C13: on a non-empty key domain the walk raises no error and never
\* emits as a boundary a remembered key that it has not set: every
\* boundary emitted so far is a key the walk has gone through, also when
\* the first key walked alone reaches the budget; and the first boundary
\* is not below the domain minimum, where the first range starts.
C13_NoUnsetPreviousKey ==
    (count_indexes # <<>> /\ bpc \in {"walk", "done", "error"}) =>
        /\ bpc # "error"
        /\ \A i \in DOMAIN workers_data : workers_data[i] \in WalkedKeys
        /\ workers_data # <<>> => DomainMin <= workers_data[1]

\* C14: when the source queries return no key at all, distribute_indexes
\* returns an empty sequence of boundaries and raises no error.
C14_EmptyDomainGivesNoBoundary ==
    /\ (count_indexes = <<>>) => bpc # "error"
    /\ (bpc = "done" /\ count_indexes = <<>>) => workers_data = <<>>

\* C15: a key whose count alone exceeds the budget is in a range of its
\* own: some range formed from the returned boundaries ends at that key
\* and holds no other key.
C15_OversizedKeyHasOwnRange ==
    BalancerReturned =>
        \A j \in DOMAIN count_indexes :
            count_indexes[j].c > budget =>
                \E i \in DOMAIN workers_data :
                    /\ RangeEnd(i) = count_indexes[j].k
                    /\ KeysIn(i) = {count_indexes[j].k}

\* C16: the walk goes through the keys in ascending order whatever the
\* order in which the sources returned them, and the boundaries returned
\* are strictly ascending.
C16_BoundariesStrictlyAscending ==
    /\ bpc \in {"walk", "done"} =>
          \A i \in 1..(Len(count_indexes) - 1) :
              count_indexes[i].k < count_indexes[i + 1].k
    /\ BalancerReturned =>
          \A i \in 1..(Len(workers_data) - 1) :
              workers_data[i] < workers_data[i + 1]

\* The range handed to the reduce_function of the i-th boundary.
PartitionRange(i) == [start |-> RangeStart(i), end |-> RangeEnd(i)]

\* The source keys handed to distribute_indexes and to the reduce workers.
SourceKeys == [n \in DOMAIN sources |-> SourceKey(n)]

\* The ranges whose reduce_function selects row r of source n.
SelectedBy(n, r) ==
    {i \in DOMAIN workers_data :
        \E j \in DOMAIN SelectRows(SourceKeys, sources, PartitionRange(i)) :
            LET rec == SelectRows(SourceKeys, sources, PartitionRange(i))[j]
            IN rec.src = SourceKey(n) /\ rec.row = r}

\* C17: with one reduce_function per range of the balancer, every source
\* record is selected by exactly one range, and no range selects a row
\* twice.
C17_RangesSelectEachRecordOnce ==
    BalancerReturned =>
        /\ \A n \in DOMAIN sources : \A r \in DOMAIN sources[n] :
              Cardinality(SelectedBy(n, r)) = 1
        /\ \A i \in DOMAIN workers_data :
              LET sel == SelectRows(SourceKeys, sources, PartitionRange(i))
              IN \A a, b \in DOMAIN sel : a # b => sel[a] # sel[b]

\* C11: on one source with the counts {1:5, 2:5, 3:5, 4:5, 5:90} and the
\* budget 10, the walk returns exactly the boundaries [2, 5].
C11_ExampleBoundaries ==
    (/\ bpc = "done"
     /\ sources = ExampleRun.sources
     /\ budget = ExampleRun.budget) => workers_data = <<2, 5>>

\* ------------------------------------------------------------------------
\* Properties of the chunk stage functions
\* ------------------------------------------------------------------------
\* Worker p is in, or has left, an invocation.
Invoked(p) == inv[p] # NoInv

\* All the outputs of worker p's invocation existed when it began.
EnteredComplete(p) == Invoked(p) /\ entry[p] = Range(Outputs(inv[p]))

\* Worker p's invocation has neither downloaded, nor run its tool, nor
\* uploaded, and is in or past its existence check.
OnlyProbed(p) ==
    /\ got[p] = <<>>
    /\ ~ran[p]
    /\ uploaded[p] = {}
    /\ pc[p] \in {"mkdtemp", "probe", "skipped"}

\* C4: an invocation of a stage function that began with all its output
\* objects in the store runs no tool and uploads nothing (so it leaves the
\* store as it is), and ends as skipped.
C4_CompleteOutputsAreSkipped ==
    \A p \in Workers : EnteredComplete(p) => OnlyProbed(p)

C4_Witness ==
    \E p, q \in Workers :
        /\ inv[p].stage = "align_mapper"
        /\ inv[q].stage = "filter_index_to_mpileup"
        /\ EnteredComplete(p) /\ pc[p] = "skipped"
        /\ EnteredComplete(q) /\ pc[q] = "skipped"

AlignOutputs(i) == {MapIndexKey(i.run, i.fq, i.fa), FilteredMapKey(i.run, i.fq, i.fa)}

\* C6: align_mapper ends as skipped only when the map index and the
\* filtered map are both in the store; an align_mapper invocation that
\* returns otherwise has run the tool and has uploaded both objects, also
\* when one of them was already there.
C6_AlignSkipsOnlyOnBothOutputs ==
    \A p \in Workers :
        inv[p].stage = "align_mapper" =>
            /\ pc[p] = "skipped" => \A okey \in AlignOutputs(inv[p]) : Exists(okey)
            /\ pc[p] = "returned" => ran[p] /\ uploaded[p] = AlignOutputs(inv[p])
            /\ (~ran[p] /\ pc[p] \in {"mkdtemp", "download", "tool"}) =>
                   \E okey \in AlignOutputs(inv[p]) : okey \notin entry[p]

C6_Witness ==
    \E p \in Workers :
        /\ inv[p].stage = "align_mapper"
        /\ Cardinality(entry[p]) = 1
        /\ pc[p] = "returned"
        /\ uploaded[p] = AlignOutputs(inv[p])

\* C7: when an invocation that allocated its temporary directories has
\* returned or raised, none of these directories exists any more.
C7_WorkingDirectoryRemovedOnExit ==
    \A p \in Workers :
        pc[p] \in {"returned", "raised"} => Range(tmp[p]) \cap dirs[p] = {}

\* C8: an invocation whose external tool has exited with a non-success
\* status uploads nothing and does not return normally.
C8_ToolFailureIsFatal ==
    \A p \in Workers :
        toolFailed[p] => uploaded[p] = {} /\ pc[p] # "returned"

\* What one run of the four stages in order, never interrupted, leaves in
\* the store, given what the tools do.
StageOfKey(okey) ==
    IF okey.prefix = "gem" THEN "gem_indexer"
    ELSE IF okey.stage = "gem-mapper" THEN "align_mapper"
    ELSE IF okey.stage = "index-correction" THEN "index_correction"
    ELSE "filter_index_to_mpileup"

Produced(stage) ==
    CASE stage = "gem_indexer" -> tool[stage] = "ok"
      [] stage = "align_mapper" ->
            tool["gem_indexer"] = "ok" /\ tool[stage] # "fail_none"
      [] stage = "index_correction" ->
            /\ tool["gem_indexer"] = "ok"
            /\ tool["align_mapper"] # "fail_none"
            /\ tool[stage] = "ok"
      [] OTHER ->
            /\ tool["gem_indexer"] = "ok"
            /\ tool["align_mapper"] # "fail_none"
            /\ tool["index_correction"] = "ok"
            /\ tool[stage] # "fail_none"

Sound(stage) ==
    CASE stage = "gem_indexer" -> TRUE
      [] stage = "align_mapper" -> tool[stage] = "ok"
      [] stage = "index_correction" -> tool["align_mapper"] = "ok"
      [] OTHER -> tool["align_mapper"] = "ok" /\ tool[stage] = "ok"

UninterruptedStore ==
    [okey \in AllKeys |->
        IF Produced(StageOfKey(okey))
        THEN [arc |-> [dir |-> 0, name |-> okey.file],
              ok |-> Sound(StageOfKey(okey))]
        ELSE Absent]

Ended(p) == pc[p] \in {"skipped", "returned"}

\* C9: when two workers have both ended an invocation of the same stage on
\* the same inputs, whatever the interleaving of their steps, every output
\* key of the stage holds what one invocation alone produces.
C9_ConcurrentInvocationsConverge ==
    \A p, q \in Workers :
        (p # q /\ Invoked(p) /\ inv[p] = inv[q] /\ Ended(p) /\ Ended(q)) =>
            \A okey \in Range(Outputs(inv[p])) :
                Exists(okey) /\ store[okey] = UninterruptedStore[okey]

C9_Witness ==
    \E p, q \in Workers :
        /\ p # q
        /\ inv[p] = inv[q]
        /\ inv[p].stage = "align_mapper"
        /\ pc[p] = "returned" /\ pc[q] = "returned"
        /\ uploaded[p] = AlignOutputs(inv[p])
        /\ uploaded[q] = AlignOutputs(inv[q])
        /\ tmp[p] # tmp[q]

NextInputAbsent(p) ==
    /\ pc[p] = "download"
    /\ ~Exists(Inputs(inv[p])[turn[p] + 1])

\* C26: an invocation that comes to download an input object that is absent
\* has uploaded nothing, and its next step ends it as raised (or it is
\* stopped), with nothing run and nothing written to the store.
C26_AbsentInputIsFatal ==
    /\ [](\A p \in Workers : pc[p] = "download" => uploaded[p] = {} /\ ~ran[p])
    /\ [][\A p \in Workers :
            (NextInputAbsent(p) /\ <<pc[p], turn[p]>> # <<pc'[p], turn'[p]>>) =>
                /\ pc'[p] \in {"raised", "idle"}
                /\ uploaded'[p] = {}
                /\ ~ran'[p]
                /\ store' = store]_vars

C26_Witness ==
    \E p \in Workers :
        /\ inv[p].stage = "filter_index_to_mpileup"
        /\ pc[p] = "raised"
        /\ Exists(FilteredMapKey(inv[p].run, inv[p].fq, inv[p].fa))
        /\ ~Exists(CorrectedIndexKey(inv[p].run, inv[p].fq))
        /\ uploaded[p] = {}
        /\ ~ran[p]

\* C30: whatever align_mapper invocations have run, interleaved or stopped
\* at any step, if the filtered map of a chunk pair is in the store then
\* so is its map index.
C30_FilteredMapImpliesMapIndex ==
    \A r \in Runs, q \in FastqChunkIds, a \in FastaChunkIds :
        Exists(FilteredMapKey(r, q, a)) => Exists(MapIndexKey(r, q, a))

C30_Witness ==
    /\ abandoned
    /\ \E p, q \in Workers :
          /\ p # q
          /\ inv[p] = inv[q]
          /\ inv[p].stage = "align_mapper"
          /\ FilteredMapKey(inv[p].run, inv[p].fq, inv[p].fa) \in uploaded[p]
          /\ pc[q] = "upload"
          /\ uploaded[q] = {MapIndexKey(inv[q].run, inv[q].fq, inv[q].fa)}

\* The keys among the values an invocation returned.
KeysOf(res) == Range(res.keys)

BuiltInAnotherRun(p, q) ==
    /\ inv[p].stage = "gem_indexer"
    /\ inv[q].stage = "gem_indexer"
    /\ pc[p] \in {"returned", "skipped"}
    /\ inv[q].fa = inv[p].fa
    /\ inv[q].run # inv[p].run

\* C22: the key of the index names the reference chunk and no run, and
\* once gem_indexer has ended for a reference chunk in one run, the
\* existence check of gem_indexer for that chunk in another run finds the
\* index: the invocation skips (unless it is stopped).
C22_GemIndexSharedAcrossRuns ==
    /\ [](\A p \in Workers :
            inv[p].stage = "gem_indexer" =>
                Range(Outputs(inv[p])) = {GemKey(inv[p].fa)})
    /\ [][\A p, q \in Workers :
            (BuiltInAnotherRun(p, q) /\ pc[q] = "probe" /\ pc'[q] # "probe") =>
                pc'[q] \in {"skipped", "idle"}]_vars

C22_Witness ==
    \E p, q \in Workers :
        /\ BuiltInAnotherRun(p, q)
        /\ pc[p] = "returned"
        /\ inv[p].run = RunId
        /\ inv[q].run = OtherRunId
        /\ pc[q] = "skipped"
        /\ uploaded[q] = {}
        /\ ~ran[q]

\* C24: an invocation of filter_index_to_mpileup that has computed and
\* returned has stored, besides the pileup, another object (the one that
\* gives the key values of the pileup).
C24_PileupComesWithItsKeys ==
    \A p \in Workers :
        (inv[p].stage = "filter_index_to_mpileup" /\ pc[p] = "returned") =>
            \E okey \in uploaded[p] :
                okey # MpileupKey(inv[p].run, inv[p].fq, inv[p].fa)

\* C21: when a select on a source key has failed in reduce_function or in
\* distribute_indexes, the error raised names that source key, no
\* boundaries are returned, and the failing invocation uploads no part and
\* returns no result.
C21_QueryFailureNamesTheKey ==
    /\ [](query_error # NoError =>
            /\ query_error.named = query_error.failed
            /\ query_error.in = "distribute_indexes" => bpc # "done")
    /\ [][query_error' # query_error =>
            /\ mpu_store' = mpu_store
            /\ collected' = collected
            /\ workers_data' = workers_data]_vars

\* The inputs the key of a written object is derived from.
TaskInputs(t) == <<t.run, t.fa, t.fq>>

\* C23: the keys of two written objects are different strings whenever the
\* objects are written by different functions or derived from different
\* (run id, fasta chunk id, fastq chunk id).
C23_DistinctTasksWriteDistinctKeys ==
    \A i, j \in DOMAIN derived :
        (\/ StageOfKind(tasks[i].kind) # StageOfKind(tasks[j].kind)
         \/ TaskInputs(tasks[i]) # TaskInputs(tasks[j])) =>
            derived[i] # derived[j]

C23_Witness ==
    /\ Len(derived) = 2
    /\ tasks[1].kind = "map_index"
    /\ tasks[2].kind = "map_index"
    /\ tasks[1].run = tasks[2].run
    /\ tasks[1].fa = 1 /\ tasks[2].fa = 1
    /\ tasks[1].fq = 0 /\ tasks[2].fq = 1
    /\ derived[1] # derived[2]

\* The group keys_by_fasta_split has put the i-th key in.
GroupsOf(i) == {key_dict[e].g : e \in {x \in DOMAIN key_dict :
                    derived[i] \in Range(key_dict[x].ks)}}

\* C25: when keys_by_fasta_split has gone through its keys, every key is
\* in the group named by its fasta split id and in no other, and two keys
\* are in the same group exactly when their fasta split ids are equal.
C25_GroupedByFastaSplitId ==
    (tasks # <<>> /\ Grouped = Len(tasks)) =>
        /\ \A i \in DOMAIN tasks : GroupsOf(i) = {Digits(tasks[i].fa)}
        /\ \A i, j \in DOMAIN tasks :
              (GroupsOf(i) = GroupsOf(j)) <=> (tasks[i].fa = tasks[j].fa)

\* C31: when an invocation of a stage function has ended, by the skip path,
\* by a normal return or by an exception, the working directory of the
\* worker process is the one it was at entry.
C31_WorkingDirectoryRestoredOnExit ==
    \A p \in Workers : pc[p] \in Terminal => cwd[p] = pwd[p]

\* C32: when an invocation has returned by the skip path, no directory it
\* created exists any more.
C32_SkipLeavesNoWorkingDirectory ==
    \A p \in Workers :
        pc[p] = "skipped" => Range(tmp[p]) \cap dirs[p] = {}

\* C33: for every upload id, every key and the parts list collected so
\* far, finish(key, mpu_id, parts) issues the completion calls that
\* complete_multipart([key], [mpu_id], parts) issues; and once finish has
\* run, the calls it issued are those of complete_multipart on its
\* arguments.
C33_FinishIsCompleteMultipartOfOne ==
    /\ \A u \in UploadIds :
          \A k \in Range(create_multipart_keys(RunId, MaxUploads)) :
              FinishCalls(k, u, collected)
                  = CompleteMultipartCalls(<<k>>, <<u>>, collected)
    /\ cpc = "finished" =>
          completions = CompleteMultipartCalls(<<completions[1].Key>>,
                                               <<completions[1].UploadId>>,
                                               collected)

C33_Witness ==
    /\ cpc = "finished"
    /\ Len(completions) = 1
    /\ completions[1].Parts # <<>>
    /\ Len(completions[1].Parts)
          < Cardinality({i \in DOMAIN collected :
                            collected[i].mpu_id = completions[1].UploadId})

====
